---------------------------- MODULE Spec2Model ----------------------------
(***************************************************************************)
(* Model of latincy-preprocess (rust/src/uv.rs, rust/src/long_s.rs):       *)
(* the U/V rule cascade and normalizer, and the two-pass long-s normalizer.*)
(*                                                                         *)
(* A text is a sequence of characters; a character is a short string:      *)
(* "a", "V", " ", and a macronized vowel is written with a trailing "~"    *)
(* ("u~" is U+016B, "U~" is U+016A).  Positions are 1-based: position idx  *)
(* of the model is index idx-1 of the Rust slice.  An Option<char> that is *)
(* None is the value None, which is no character and satisfies none of     *)
(* is_vowel, is_consonant, is_alpha.                                       *)
(***************************************************************************)
EXTENDS Integers, Sequences, FiniteSets, TLC

\* ---------------------------------------------------------------- bounds
\* Longest text of the exhaustive part of the U/V inputs.
MaxLen == 4
\* How many times a caller feeds a normalizer's output back to it.
MaxCalls == 2
\* Longest word of the exhaustive part of the long-s inputs.
MaxWordLen == 3
\* Largest n-gram count of a frequency table.
MaxCount == 3
\* Longest text of the exhaustive part of the normalize_text inputs.
MaxTextLen == 3
\* The number of concurrent callers.
NumCallers == 2
\* The largest number of tokens in the text a concurrent caller passes.
MaxTokens == 2

\* ------------------------------------------------------------ characters
None == "none"

AsciiLowerOf ==
    [A |-> "a", B |-> "b", C |-> "c", D |-> "d", E |-> "e", F |-> "f",
     G |-> "g", H |-> "h", I |-> "i", J |-> "j", K |-> "k", L |-> "l",
     M |-> "m", N |-> "n", O |-> "o", P |-> "p", Q |-> "q", R |-> "r",
     S |-> "s", T |-> "t", U |-> "u", V |-> "v", W |-> "w", X |-> "x",
     Y |-> "y", Z |-> "z"]

MacronLowerOf ==
    ("A~" :> "a~") @@ ("E~" :> "e~") @@ ("I~" :> "i~") @@ ("O~" :> "o~")
        @@ ("U~" :> "u~")

AsciiUpper == DOMAIN AsciiLowerOf
AsciiLowerLetters == {AsciiLowerOf[c] : c \in AsciiUpper}
MacronUpper == DOMAIN MacronLowerOf
MacronLower == {MacronLowerOf[c] : c \in MacronUpper}

\* char::to_ascii_lowercase: only A-Z change.
to_ascii_lowercase(c) == IF c \in AsciiUpper THEN AsciiLowerOf[c] ELSE c

\* char::to_lowercase (Unicode): the macronized capitals change too.
to_lowercase(c) ==
    IF c \in AsciiUpper THEN AsciiLowerOf[c]
    ELSE IF c \in MacronUpper THEN MacronLowerOf[c]
    ELSE c

\* char::to_uppercase (Unicode).
to_uppercase(c) ==
    IF c \in AsciiLowerLetters
    THEN CHOOSE u \in AsciiUpper : AsciiLowerOf[u] = c
    ELSE IF c \in MacronLower
    THEN CHOOSE u \in MacronUpper : MacronLowerOf[u] = c
    ELSE c

is_uppercase(c) == c \in AsciiUpper \cup MacronUpper
is_lowercase(c) == c \in AsciiLowerLetters \cup MacronLower

is_vowel(c) ==
    c \in {"a", "e", "i", "o", "u", "A", "E", "I", "O", "U"}
            \cup MacronLower \cup MacronUpper

is_consonant(c) ==
    to_ascii_lowercase(c) \in
        {"b", "c", "d", "f", "g", "h", "j", "k", "l", "m", "n", "p", "q", "r",
         "s", "t", "w", "x", "y", "z"}

is_alpha(c) ==
    c \in AsciiUpper \cup AsciiLowerLetters \cup MacronUpper \cup MacronLower

is_u_perfect_consonant(c) ==
    to_ascii_lowercase(c) \in {"f", "t", "n", "b", "c", "m", "s", "p", "x"}

\* The u/v test of normalize: matches!(ch.to_ascii_lowercase(), 'u' | 'v').
is_uv(c) == to_ascii_lowercase(c) \in {"u", "v"}

\* chars.get(k) as an Option: the character at position k, None outside.
At(chars, k) == IF k \in 1..Len(chars) THEN chars[k] ELSE None

\* is_word_boundary without its look at the previous character: only the
\* start of the text counts as a boundary.
is_word_boundary_text_start_only(chars, idx) == idx = 1

is_word_boundary(chars, idx) ==
    IF idx = 1 THEN TRUE ELSE ~is_alpha(chars[idx - 1])

is_word_end(chars, idx) ==
    IF idx = Len(chars) THEN TRUE ELSE ~is_alpha(chars[idx + 1])

RECURSIVE WordStart(_, _)
WordStart(chars, start) ==
    IF start > 1 /\ is_alpha(chars[start - 1])
    THEN WordStart(chars, start - 1)
    ELSE start

RECURSIVE WordEnd(_, _)
WordEnd(chars, end) ==
    IF end < Len(chars) /\ is_alpha(chars[end + 1])
    THEN WordEnd(chars, end + 1)
    ELSE end

\* The lowercased maximal alphabetic run around idx.
extract_word(chars, idx) ==
    LET start == WordStart(chars, idx)
        end == WordEnd(chars, idx)
    IN  [k \in 1..(end - start + 1) |-> to_lowercase(chars[start + k - 1])]

\* str::starts_with and str::contains on character sequences.
starts_with(w, p) == Len(p) <= Len(w) /\ SubSeq(w, 1, Len(p)) = p

contains(w, p) ==
    \E k \in 1..(Len(w) - Len(p) + 1) : SubSeq(w, k, k + Len(p) - 1) = p

\* --------------------------------------------------- word exception lists
VOCALIC_U_WORDS ==
    {
      <<"c","u","i">>, <<"c","u","i","u","s">>, <<"h","u","i","c">>,
      <<"h","u","i","u","s">>, <<"c","u","i","q","u","e">>, <<"c","u","i","q","u","a","m">>,
      <<"s","u","a">>, <<"s","u","a","e">>, <<"s","u","a","m">>,
      <<"s","u","a","s">>, <<"s","u","i","s">>, <<"s","u","o">>,
      <<"s","u","o","s">>, <<"s","u","u","m">>, <<"s","u","o","r","u","m">>,
      <<"s","u","a","r","u","m">>, <<"t","u","a">>, <<"t","u","a","e">>,
      <<"t","u","a","m">>, <<"t","u","a","s">>, <<"t","u","i","s">>,
      <<"t","u","o">>, <<"t","u","o","s">>, <<"t","u","u","m">>,
      <<"t","u","o","r","u","m">>, <<"t","u","a","r","u","m">>, <<"t","u","u","s">>,
      <<"s","u","u","s">>, <<"e","i","u","s">>, <<"e","i","u","s","d","e","m">>,
      <<"d","u","o">>, <<"d","u","a","e">>, <<"d","u","o","s">>,
      <<"d","u","a","s">>, <<"d","u","o","b","u","s">>, <<"d","u","a","b","u","s">>,
      <<"d","u","o","r","u","m">>, <<"d","u","a","r","u","m">>, <<"p","e","r","p","e","t","u","u","m">>,
      <<"p","e","r","p","e","t","u","a">>, <<"p","e","r","p","e","t","u","a","e">>, <<"p","e","r","p","e","t","u","o">>,
      <<"p","e","r","p","e","t","u","a","m">>, <<"a","n","n","u","u","m">>, <<"a","n","n","u","a">>,
      <<"a","n","n","u","a","e">>, <<"a","n","n","u","o">>, <<"m","u","t","u","u","s">>,
      <<"m","u","t","u","a">>, <<"m","u","t","u","a","e">>, <<"m","u","t","u","u","m">>,
      <<"m","u","t","u","o">>, <<"c","o","n","t","i","n","u","u","s">>, <<"c","o","n","t","i","n","u","a">>,
      <<"c","o","n","t","i","n","u","a","e">>, <<"c","o","n","t","i","n","u","u","m">>, <<"c","o","n","t","i","n","u","o">>,
      <<"v","a","c","u","u","s">>, <<"v","a","c","u","a">>, <<"v","a","c","u","a","e">>,
      <<"v","a","c","u","u","m">>, <<"v","a","c","u","o">>, <<"a","m","b","i","g","u","u","s">>,
      <<"a","m","b","i","g","u","a">>, <<"a","m","b","i","g","u","a","e">>, <<"a","m","b","i","g","u","u","m">>,
      <<"a","m","b","i","g","u","o">>, <<"e","x","i","g","u","u","s">>, <<"e","x","i","g","u","a">>,
      <<"e","x","i","g","u","u","m">>, <<"e","x","i","g","u","o">>, <<"a","s","s","i","d","u","u","s">>,
      <<"a","s","s","i","d","u","a">>, <<"a","s","s","i","d","u","u","m">>, <<"a","s","s","i","d","u","o">>,
      <<"i","n","t","r","e","m","u","i","t">>, <<"t","r","e","m","u","i","t">>, <<"f","r","e","m","u","i","t">>,
      <<"g","e","m","u","i","t">>, <<"i","n","t","r","e","m","u","i","t","q","u","e">>, <<"e","x","p","a","l","l","u","i","t">>,
      <<"p","a","l","l","u","i","t">>, <<"d","e","s","e","r","u","i","t">>, <<"i","n","s","e","r","u","i","t">>,
      <<"c","o","n","s","e","r","u","i","t">>, <<"p","o","t","u","e","r","e">>, <<"f","u","e","r","e">>,
      <<"h","a","b","u","e","r","e">>, <<"t","e","n","u","e","r","e">>, <<"d","o","c","u","e","r","e">>,
      <<"m","o","n","u","e","r","e">>, <<"p","l","a","c","u","e","r","e">>, <<"t","a","c","u","e","r","e">>,
      <<"p","a","t","u","e","r","e">>, <<"l","a","t","u","e","r","e">>, <<"c","a","r","u","e","r","e">>,
      <<"o","b","s","t","i","p","u","e","r","e">>, <<"o","b","r","u","e","r","a","t">>, <<"o","b","r","u","i","t">>,
      <<"f","r","u","i">>, <<"f","r","u","o","r">>, <<"f","r","u","i","t","u","r">>,
      <<"f","r","u","u","n","t","u","r">>, <<"t","e","n","u","e","s">>, <<"t","e","n","u","i","s">>,
      <<"i","m","p","l","u","i","t">>, <<"c","o","m","p","l","u","i","t">>, <<"f","l","u","u","n","t">>,
      <<"e","f","f","l","u","u","n","t">>, <<"a","f","f","l","u","u","n","t">>, <<"c","o","n","f","l","u","u","n","t">>,
      <<"i","n","f","l","u","u","n","t">>, <<"r","e","f","l","u","u","n","t">>, <<"d","e","f","l","u","u","n","t">>,
      <<"p","r","o","f","l","u","u","n","t">>, <<"c","i","r","c","u","m","f","l","u","u","n","t">>
    }

VOCALIC_U_STEMS ==
    <<
      <<"s","u","a","d">>,
      <<"s","u","a","r">>,
      <<"s","u","a","v">>,
      <<"s","t","a","t","u">>,
      <<"a","r","d","u">>,
      <<"f","a","t","u">>,
      <<"r","e","s","i","d","u">>,
      <<"s","t","r","e","n","u">>,
      <<"c","o","n","s","p","i","c","u">>,
      <<"i","n","d","i","v","i","d","u">>
    >>

\* ------------------------------------------------------- the rule cascade
\* A rule that does not match yields NoRule; one that matches yields
\* <<letter, rule name>>.
NoRule == <<>>

\* next.map_or(true, |c| !is_alpha(c))
IsEnd(c) == c = None \/ ~is_alpha(c)

\* Rule 1 comparing the previous character with 'q' as it is written.
rule_after_q_lowercase_only(chars, idx) ==
    IF At(chars, idx - 1) = "q"
    THEN <<"u", "after_q">>
    ELSE NoRule

\* Rule 1: after 'q'.
rule_after_q(chars, idx) ==
    IF to_ascii_lowercase(At(chars, idx - 1)) = "q"
    THEN <<"u", "after_q">>
    ELSE NoRule

\* Rule 2: 'gu' / 'ngu' before a vowel.
rule_gu(chars, idx) ==
    IF /\ to_ascii_lowercase(At(chars, idx - 1)) = "g"
       /\ is_vowel(At(chars, idx + 1))
    THEN IF to_ascii_lowercase(At(chars, idx - 2)) = "n"
         THEN <<"u", "ngu_digraph">>
         ELSE <<"u", "gu_before_vowel">>
    ELSE NoRule

\* Rule 3: the whole word is a vocalic exception.
rule_word_exception(chars, idx) ==
    IF extract_word(chars, idx) \in VOCALIC_U_WORDS
    THEN <<"u", "word_exception">>
    ELSE NoRule

\* Rule 4, first heuristic: volo/nolo/malo.
rule_volo_perfect(chars, idx) ==
    LET word == extract_word(chars, idx)
    IN  IF /\ to_ascii_lowercase(At(chars, idx + 1)) = "i"
           /\ to_ascii_lowercase(At(chars, idx - 1)) = "l"
           /\ \/ starts_with(word, <<"v", "o", "l">>)
              \/ starts_with(word, <<"n", "o", "l">>)
              \/ starts_with(word, <<"m", "a", "l">>)
              \/ starts_with(word, <<"u", "o", "l">>)
           /\ to_ascii_lowercase(At(chars, idx + 2)) = "t"
           /\ IsEnd(At(chars, idx + 3))
        THEN <<"u", "volo_perfect">>
        ELSE NoRule

\* Syncopated perfect -uere at the word end.
rule_perfect_uere(chars, idx) ==
    IF /\ to_ascii_lowercase(At(chars, idx + 1)) = "e"
       /\ to_ascii_lowercase(At(chars, idx + 2)) = "r"
       /\ to_ascii_lowercase(At(chars, idx + 3)) = "e"
       /\ IsEnd(At(chars, idx + 4))
       /\ is_u_perfect_consonant(At(chars, idx - 1))
    THEN <<"u", "perfect_uere">>
    ELSE NoRule

\* -ui at the word end.
rule_perfect_ui(chars, idx) ==
    IF /\ to_ascii_lowercase(At(chars, idx + 1)) = "i"
       /\ IsEnd(At(chars, idx + 2))
       /\ is_u_perfect_consonant(At(chars, idx - 1))
    THEN <<"u", "perfect_ui">>
    ELSE NoRule

\* -uit at the word end.
rule_perfect_uit(chars, idx) ==
    IF /\ to_ascii_lowercase(At(chars, idx + 1)) = "i"
       /\ to_ascii_lowercase(At(chars, idx + 2)) = "t"
       /\ IsEnd(At(chars, idx + 3))
       /\ is_u_perfect_consonant(At(chars, idx - 1))
    THEN <<"u", "perfect_uit">>
    ELSE NoRule

\* -uimus at the word end.
rule_perfect_uimus(chars, idx) ==
    IF /\ to_ascii_lowercase(At(chars, idx + 1)) = "i"
       /\ to_ascii_lowercase(At(chars, idx + 2)) = "m"
       /\ to_ascii_lowercase(At(chars, idx + 3)) = "u"
       /\ to_ascii_lowercase(At(chars, idx + 4)) = "s"
       /\ IsEnd(At(chars, idx + 5))
       /\ is_u_perfect_consonant(At(chars, idx - 1))
    THEN <<"u", "perfect_uimus">>
    ELSE NoRule

\* The -uisse heuristic with the consonant test of its sibling heuristics.
rule_perfect_uisse_perfect_consonant(chars, idx) ==
    IF /\ to_ascii_lowercase(At(chars, idx + 1)) = "i"
       /\ to_ascii_lowercase(At(chars, idx + 2)) = "s"
       /\ to_ascii_lowercase(At(chars, idx + 3)) = "s"
       /\ to_ascii_lowercase(At(chars, idx + 4)) = "e"
       /\ IsEnd(At(chars, idx + 5))
       /\ is_u_perfect_consonant(At(chars, idx - 1))
    THEN <<"u", "perfect_uisse">>
    ELSE NoRule

\* -uisse (infinitive).
rule_perfect_uisse(chars, idx) ==
    IF /\ to_ascii_lowercase(At(chars, idx + 1)) = "i"
       /\ to_ascii_lowercase(At(chars, idx + 2)) = "s"
       /\ to_ascii_lowercase(At(chars, idx + 3)) = "s"
       /\ to_ascii_lowercase(At(chars, idx + 4)) = "e"
       /\ IsEnd(At(chars, idx + 5))
       /\ is_consonant(At(chars, idx - 1))
    THEN <<"u", "perfect_uisse">>
    ELSE NoRule

\* -uera-, -ueri-, -uero-.
rule_perfect_uer_stem(chars, idx) ==
    IF /\ to_ascii_lowercase(At(chars, idx + 1)) = "e"
       /\ to_ascii_lowercase(At(chars, idx + 2)) = "r"
       /\ to_ascii_lowercase(At(chars, idx + 3)) \in {"a", "i", "o"}
       /\ is_u_perfect_consonant(At(chars, idx - 1))
    THEN <<"u", "perfect_uer_stem">>
    ELSE NoRule

\* Rule 5's first-letter branch taking any 'i' before the pair for a
\* word-initial one.
rule_double_u_first_any_i(chars, idx) ==
    LET p == At(chars, idx - 1)
        p2 == At(chars, idx - 2)
    IN  IF ~(to_ascii_lowercase(At(chars, idx + 1)) \in {"u", "v"})
        THEN NoRule
        ELSE IF is_consonant(p)
        THEN IF is_vowel(p2)
             THEN <<"v", "double_u_first_VCuu">>
             ELSE <<"u", "double_u_first_CCuu">>
        ELSE IF is_vowel(p)
        THEN IF to_ascii_lowercase(p) = "i"
             THEN <<"u", "double_u_first_initial_i">>
             ELSE <<"v", "double_u_first_Vuu">>
        ELSE NoRule

\* Rule 5, the FIRST letter of a doubled u/v.
rule_double_u_first(chars, idx) ==
    LET p == At(chars, idx - 1)
        p2 == At(chars, idx - 2)
    IN  IF ~(to_ascii_lowercase(At(chars, idx + 1)) \in {"u", "v"})
        THEN NoRule
        ELSE IF is_consonant(p)
        THEN IF is_vowel(p2)
             THEN <<"v", "double_u_first_VCuu">>
             ELSE <<"u", "double_u_first_CCuu">>
        ELSE IF is_vowel(p)
        THEN IF to_ascii_lowercase(p) = "i" /\ is_word_boundary(chars, idx - 1)
             THEN <<"u", "double_u_first_initial_i">>
             ELSE <<"v", "double_u_first_Vuu">>
        ELSE NoRule

\* The second-letter branch asking whether the letter before it, and not the
\* 'i' two back, starts the word.
rule_double_u_second_boundary_one_back(chars, idx) ==
    LET p == At(chars, idx - 1)
        p2 == At(chars, idx - 2)
        p3 == At(chars, idx - 3)
    IN  IF ~(to_ascii_lowercase(p) \in {"u", "v"})
        THEN NoRule
        ELSE IF is_consonant(p2)
        THEN IF is_vowel(p3)
             THEN <<"u", "double_u_second_VCuu">>
             ELSE <<"v", "double_u_second_CCuu">>
        ELSE IF is_vowel(p2)
        THEN IF to_ascii_lowercase(p2) = "i" /\ is_word_boundary(chars, idx - 1)
             THEN <<"v", "double_u_second_initial_i">>
             ELSE <<"u", "double_u_second_Vuu">>
        ELSE NoRule

\* Rule 5, the SECOND letter of a doubled u/v.
rule_double_u_second(chars, idx) ==
    LET p == At(chars, idx - 1)
        p2 == At(chars, idx - 2)
        p3 == At(chars, idx - 3)
    IN  IF ~(to_ascii_lowercase(p) \in {"u", "v"})
        THEN NoRule
        ELSE IF is_consonant(p2)
        THEN IF is_vowel(p3)
             THEN <<"u", "double_u_second_VCuu">>
             ELSE <<"v", "double_u_second_CCuu">>
        ELSE IF is_vowel(p2)
        THEN IF to_ascii_lowercase(p2) = "i" /\ is_word_boundary(chars, idx - 2)
             THEN <<"v", "double_u_second_initial_i">>
             ELSE <<"u", "double_u_second_Vuu">>
        ELSE NoRule

\* Rule 6: word-initial.
rule_initial(chars, idx) ==
    IF is_word_boundary(chars, idx)
    THEN IF is_vowel(At(chars, idx + 1))
         THEN <<"v", "initial_before_vowel">>
         ELSE <<"u", "initial_before_consonant">>
    ELSE NoRule

\* Rule 7: between vowels.
rule_intervocalic(chars, idx) ==
    IF is_vowel(At(chars, idx - 1)) /\ is_vowel(At(chars, idx + 1))
    THEN <<"v", "intervocalic">>
    ELSE NoRule

\* Rule 8: before a consonant.
rule_before_consonant(chars, idx) ==
    IF is_consonant(At(chars, idx + 1))
    THEN <<"u", "before_consonant">>
    ELSE NoRule

\* Rule 9: word-final.
rule_word_final(chars, idx) ==
    IF is_word_end(chars, idx) THEN <<"u", "word_final">> ELSE NoRule

\* Rule 10: after a consonant, before a vowel, with the vocalic stems.
rule_post_consonant_before_vowel(chars, idx) ==
    IF is_consonant(At(chars, idx - 1)) /\ is_vowel(At(chars, idx + 1))
    THEN IF \E s \in 1..Len(VOCALIC_U_STEMS) :
                contains(extract_word(chars, idx), VOCALIC_U_STEMS[s])
         THEN <<"u", "vocalic_u_stem">>
         ELSE <<"v", "post_consonant_before_vowel">>
    ELSE NoRule

\* Rule 11: after a consonant, before a consonant or the end.
rule_post_consonant_before_consonant(chars, idx) ==
    LET n1 == At(chars, idx + 1)
    IN  IF /\ is_consonant(At(chars, idx - 1))
           /\ (n1 = None \/ is_consonant(n1) \/ ~is_alpha(n1))
        THEN <<"u", "post_consonant_before_consonant">>
        ELSE NoRule

\* The rules in their priority order.
Cascade(chars, idx) ==
    << rule_after_q(chars, idx),
       rule_gu(chars, idx),
       rule_word_exception(chars, idx),
       rule_volo_perfect(chars, idx),
       rule_perfect_uere(chars, idx),
       rule_perfect_ui(chars, idx),
       rule_perfect_uit(chars, idx),
       rule_perfect_uimus(chars, idx),
       rule_perfect_uisse(chars, idx),
       rule_perfect_uer_stem(chars, idx),
       rule_double_u_first(chars, idx),
       rule_double_u_second(chars, idx),
       rule_initial(chars, idx),
       rule_intervocalic(chars, idx),
       rule_before_consonant(chars, idx),
       rule_word_final(chars, idx),
       rule_post_consonant_before_vowel(chars, idx),
       rule_post_consonant_before_consonant(chars, idx) >>

\* classify_uv: the first rule that matches decides; the default is 'u'.
classify_uv(chars, idx) ==
    LET rules == Cascade(chars, idx)
        hits == {r \in 1..Len(rules) : rules[r] # NoRule}
    IN  IF hits = {}
        THEN <<"u", "default">>
        ELSE rules[CHOOSE r \in hits : \A q \in hits : r <= q]

\* The loop body without the is_uppercase branch: the classified letter is
\* pushed in lower case.
normalize_push_lowercase(chars, idx) ==
    LET ch == chars[idx]
    IN  IF is_uv(ch) THEN classify_uv(chars, idx)[1] ELSE ch

\* The character normalize pushes for position idx of chars.
normalize_push(chars, idx) ==
    LET ch == chars[idx]
    IN  IF is_uv(ch)
        THEN IF is_uppercase(ch)
             THEN to_uppercase(classify_uv(chars, idx)[1])
             ELSE classify_uv(chars, idx)[1]
        ELSE ch

\* get_context: up to window characters before idx, the character at idx in
\* brackets, up to window characters after it.
get_context(chars, idx, window) ==
    LET start == IF idx - window > 1 THEN idx - window ELSE 1
        end == IF idx + window < Len(chars) THEN idx + window ELSE Len(chars)
    IN  SubSeq(chars, start, idx - 1) \o <<"[", chars[idx], "]">>
            \o SubSeq(chars, idx + 1, end)

\* The ChangeRecord normalize_detailed pushes for position idx: the position
\* counted from 0, the original and the pushed character, the rule, the
\* context.
ChangeRecord(chars, idx) ==
    [position |-> idx - 1,
     original |-> chars[idx],
     normalized |-> normalize_push(chars, idx),
     rule |-> classify_uv(chars, idx)[2],
     context |-> get_context(chars, idx, 3)]

\* The records pushed when the classified letter, before its case is restored,
\* is compared with the original.
changes_push_before_case(chars, idx) ==
    IF is_uv(chars[idx]) /\ classify_uv(chars, idx)[1] # chars[idx]
    THEN <<ChangeRecord(chars, idx)>>
    ELSE <<>>

\* The records the loop body of normalize_detailed pushes for position idx:
\* one when the pushed character differs from the original, else none.
changes_push(chars, idx) ==
    IF is_uv(chars[idx]) /\ normalize_push(chars, idx) # chars[idx]
    THEN <<ChangeRecord(chars, idx)>>
    ELSE <<>>

\* normalize as a function of the whole text.
normalize(text) == [k \in 1..Len(text) |-> normalize_push(text, k)]

\* ------------------------------------------------------- long-s: the data
ALLOWLIST ==
    {
      <<"f","a","c","e","r","e">>, <<"f","a","c","i","o">>, <<"f","a","c","i","t">>,
      <<"f","a","c","i","u","n","t">>, <<"f","e","c","e","r","a","m">>, <<"f","e","c","e","r","a","n","t">>,
      <<"f","e","c","e","r","a","t">>, <<"f","e","c","e","r","e">>, <<"f","e","c","e","r","i","m">>,
      <<"f","e","c","e","r","i","n","t">>, <<"f","e","c","e","r","i","t">>, <<"f","e","c","e","r","u","n","t">>,
      <<"f","e","c","i">>, <<"f","e","c","i","m","u","s">>, <<"f","e","c","i","s","s","e">>,
      <<"f","e","c","i","s","s","e","m">>, <<"f","e","c","i","s","s","e","n","t">>, <<"f","e","c","i","s","s","e","t">>,
      <<"f","e","c","i","s","t","i">>, <<"f","e","c","i","s","t","i","s">>, <<"f","e","c","i","t">>,
      <<"f","e","c","u","n","d","a">>, <<"f","e","c","u","n","d","a","m">>, <<"f","e","c","u","n","d","i">>,
      <<"f","e","c","u","n","d","i","s">>, <<"f","e","c","u","n","d","i","t","a","s">>, <<"f","e","c","u","n","d","i","t","a","t","e","m">>,
      <<"f","e","c","u","n","d","u","s">>, <<"f","e","l","i","c","e">>, <<"f","e","l","i","c","e","m">>,
      <<"f","e","l","i","c","e","s">>, <<"f","e","l","i","c","i">>, <<"f","e","l","i","c","i","b","u","s">>,
      <<"f","e","l","i","c","i","s">>, <<"f","e","l","i","c","i","t","e","r">>, <<"f","e","l","i","c","i","u","m">>,
      <<"f","e","l","i","x">>, <<"f","e","m","i","n","a">>, <<"f","e","m","i","n","a","e">>,
      <<"f","e","m","i","n","a","m">>, <<"f","e","m","i","n","a","r","u","m">>, <<"f","e","m","i","n","a","s">>,
      <<"f","e","m","i","n","i","s">>, <<"f","e","n","e","s","t","r","a">>, <<"f","e","n","e","s","t","r","a","m">>,
      <<"f","e","n","e","s","t","r","a","s">>, <<"f","e","n","e","s","t","r","i","s">>, <<"f","e","r","a","m">>,
      <<"f","e","r","e","b","a","m">>, <<"f","e","r","e","b","a","n","t">>, <<"f","e","r","e","b","a","t">>,
      <<"f","e","r","e","b","a","t","u","r">>, <<"f","e","r","e","m","u","s">>, <<"f","e","r","e","n","d","i">>,
      <<"f","e","r","e","n","d","o">>, <<"f","e","r","e","n","d","u","m">>, <<"f","e","r","e","n","s">>,
      <<"f","e","r","e","n","t">>, <<"f","e","r","e","n","t","e","m">>, <<"f","e","r","e","n","t","i","s">>,
      <<"f","e","r","e","s">>, <<"f","e","r","e","t">>, <<"f","e","r","i","m","u","s">>,
      <<"f","e","r","o">>, <<"f","e","r","o","c","e","m">>, <<"f","e","r","o","c","e","s">>,
      <<"f","e","r","o","c","i">>, <<"f","e","r","o","c","i","s">>, <<"f","e","r","o","c","i","t","e","r">>,
      <<"f","e","r","o","x">>, <<"f","e","r","r","e">>, <<"f","e","r","r","e","m">>,
      <<"f","e","r","r","e","n","t">>, <<"f","e","r","r","e","t">>, <<"f","e","r","r","i">>,
      <<"f","e","r","r","o">>, <<"f","e","r","r","u","m">>, <<"f","e","r","s">>,
      <<"f","e","r","t">>, <<"f","e","r","t","i","s">>, <<"f","e","r","t","u","r">>,
      <<"f","e","r","u","n","t">>, <<"f","e","r","u","n","t","u","r">>, <<"f","e","s","t","a">>,
      <<"f","e","s","t","i">>, <<"f","e","s","t","i","s">>, <<"f","e","s","t","o">>,
      <<"f","e","s","t","u","m">>, <<"f","i","a","n","t">>, <<"f","i","a","t">>,
      <<"f","i","d","e">>, <<"f","i","d","e","i">>, <<"f","i","d","e","l","e","s">>,
      <<"f","i","d","e","l","i","b","u","s">>, <<"f","i","d","e","l","i","s">>, <<"f","i","d","e","l","i","t","e","r">>,
      <<"f","i","d","e","l","i","u","m">>, <<"f","i","d","e","m">>, <<"f","i","d","e","s">>,
      <<"f","i","e","b","a","n","t">>, <<"f","i","e","b","a","t">>, <<"f","i","e","r","e","n","t">>,
      <<"f","i","e","r","e","t">>, <<"f","i","e","r","i">>, <<"f","i","g","u","r","a">>,
      <<"f","i","g","u","r","a","e">>, <<"f","i","g","u","r","a","m">>, <<"f","i","g","u","r","a","r","u","m">>,
      <<"f","i","g","u","r","a","s">>, <<"f","i","g","u","r","i","s">>, <<"f","i","l","i","a">>,
      <<"f","i","l","i","a","e">>, <<"f","i","l","i","a","m">>, <<"f","i","l","i","a","r","u","m">>,
      <<"f","i","l","i","a","s">>, <<"f","i","l","i","i">>, <<"f","i","l","i","i","s">>,
      <<"f","i","l","i","o">>, <<"f","i","l","i","o","r","u","m">>, <<"f","i","l","i","o","s">>,
      <<"f","i","l","i","u","m">>, <<"f","i","l","i","u","s">>, <<"f","i","n","e","m">>,
      <<"f","i","n","e","s">>, <<"f","i","n","i","b","u","s">>, <<"f","i","n","i","r","e">>,
      <<"f","i","n","i","s">>, <<"f","i","n","i","t">>, <<"f","i","n","i","t","a">>,
      <<"f","i","n","i","t","u","m">>, <<"f","i","n","i","t","u","r">>, <<"f","i","n","i","u","m">>,
      <<"f","i","o">>, <<"f","i","r","m","a">>, <<"f","i","r","m","a","m">>,
      <<"f","i","r","m","a","m","e","n","t","i">>, <<"f","i","r","m","a","m","e","n","t","o">>, <<"f","i","r","m","a","m","e","n","t","u","m">>,
      <<"f","i","r","m","a","r","e">>, <<"f","i","r","m","a","t">>, <<"f","i","r","m","i">>,
      <<"f","i","r","m","i","t","e","r">>, <<"f","i","r","m","u","m">>, <<"f","i","r","m","u","s">>,
      <<"f","i","t">>, <<"f","i","u","n","t">>, <<"f","o","r","m","a">>,
      <<"f","o","r","m","a","e">>, <<"f","o","r","m","a","m">>, <<"f","o","r","m","a","s">>,
      <<"f","u","e","r","a","t">>, <<"f","u","e","r","i","n","t">>, <<"f","u","e","r","i","t">>,
      <<"f","u","e","r","u","n","t">>, <<"f","u","g","e","r","e">>, <<"f","u","g","e","r","u","n","t">>,
      <<"f","u","g","i">>, <<"f","u","g","i","e","n","s">>, <<"f","u","g","i","o">>,
      <<"f","u","g","i","s","s","e">>, <<"f","u","g","i","t">>, <<"f","u","g","i","u","n","t">>,
      <<"f","u","i","s","s","e">>, <<"f","u","i","s","s","e","m">>, <<"f","u","i","s","s","e","n","t">>,
      <<"f","u","i","s","s","e","t">>, <<"f","u","i","t">>, <<"f","u","n","d","a","m","e","n","t","a">>,
      <<"f","u","n","d","a","m","e","n","t","i">>, <<"f","u","n","d","a","m","e","n","t","o">>, <<"f","u","n","d","a","m","e","n","t","u","m">>,
      <<"f","u","r","o","r">>, <<"f","u","r","o","r","e">>, <<"f","u","r","o","r","e","m">>,
      <<"f","u","r","o","r","i","s">>, <<"f","u","t","u","r","a">>, <<"f","u","t","u","r","a","m">>,
      <<"f","u","t","u","r","i">>, <<"f","u","t","u","r","i","s">>, <<"f","u","t","u","r","u","m">>,
      <<"f","u","t","u","r","u","s">>
    }

\* The default threshold of pass2 (normalize_word passes 2.0).
Threshold == 2

\* trigram_rules with fum tried before fuf.
trigram_rules_fum_first ==
    << << <<"f","q","u">>, <<"s","q","u">> >>,
       << <<"f","p","e">>, <<"s","p","e">> >>,
       << <<"f","u","m">>, <<"s","u","m">> >>,
       << <<"f","u","f">>, <<"s","u","s">> >> >>

\* The substitutions of pass1, in the order of its two loops.
trigram_rules ==
    << << <<"f","q","u">>, <<"s","q","u">> >>,
       << <<"f","p","e">>, <<"s","p","e">> >>,
       << <<"f","u","f">>, <<"s","u","s">> >>,
       << <<"f","u","m">>, <<"s","u","m">> >> >>

bigram_rules ==
    << << <<"f","p">>, <<"s","p">> >>,
       << <<"f","t">>, <<"s","t">> >>,
       << <<"f","c">>, <<"s","c">> >> >>

\* str::to_lowercase and str::to_uppercase, character by character.
str_to_lowercase(w) == [k \in 1..Len(w) |-> to_lowercase(w[k])]
str_to_uppercase(w) == [k \in 1..Len(w) |-> to_uppercase(w[k])]

\* replace that stops after the first match (str::replacen with count 1).
RECURSIVE replace_first(_, _, _)
replace_first(w, pattern, replacement) ==
    IF Len(w) < Len(pattern)
    THEN w
    ELSE IF SubSeq(w, 1, Len(pattern)) = pattern
    THEN replacement \o SubSeq(w, Len(pattern) + 1, Len(w))
    ELSE <<Head(w)>> \o replace_first(Tail(w), pattern, replacement)

\* str::replace: every non-overlapping match of pattern, found from the left,
\* is replaced.
RECURSIVE replace(_, _, _)
replace(w, pattern, replacement) ==
    IF Len(w) < Len(pattern)
    THEN w
    ELSE IF SubSeq(w, 1, Len(pattern)) = pattern
    THEN replacement
            \o replace(SubSeq(w, Len(pattern) + 1, Len(w)), pattern, replacement)
    ELSE <<Head(w)>> \o replace(Tail(w), pattern, replacement)

\* One iteration of a rule loop of pass1.
apply_rule(w, rule) ==
    IF contains(w, rule[1]) THEN replace(w, rule[1], rule[2]) ELSE w

\* if normalized.ends_with('f') { replace_range(len - 1..len, "s") }
replace_final_f(w) ==
    IF Len(w) > 0 /\ w[Len(w)] = "f"
    THEN SubSeq(w, 1, Len(w) - 1) \o <<"s">>
    ELSE w

\* The case pattern pass1 and pass2 detect before lowercasing.
detect_is_upper(w) == Len(w) > 1 /\ \A k \in 1..Len(w) : ~is_lowercase(w[k])

detect_is_title(w) ==
    /\ Len(w) > 0 /\ is_uppercase(w[1])
    /\ (Len(w) = 1 \/ ~detect_is_upper(w))

\* restore_case that forgets the title-case branch.
restore_case_no_title(w, up, title) ==
    IF up THEN str_to_uppercase(w) ELSE w

restore_case(w, up, title) ==
    IF up
    THEN str_to_uppercase(w)
    ELSE IF title
    THEN [k \in 1..Len(w) |-> IF k = 1 THEN to_uppercase(w[k]) ELSE w[k]]
    ELSE w

\* map.get(key).copied().unwrap_or(0)
count(map, key) == IF key \in DOMAIN map THEN map[key] ELSE 0

\* The test with "at least threshold times" in place of "more than".
s_wins_at_threshold(s_freq, f_freq) == s_freq >= f_freq * Threshold /\ s_freq > 0

\* The statistical test of pass2.
s_wins(s_freq, f_freq) == s_freq > f_freq * Threshold /\ s_freq > 0

\* pass2 without its allowlist check.
pass2_choice_no_allowlist(w, data) ==
    LET swapped == <<"s">> \o Tail(w)
    IN  IF Len(w) >= 2 /\ w[1] = "f" /\ w[2] = "u"
        THEN IF s_wins(count(data.trigrams, <<"<","s","u">>),
                       count(data.trigrams, <<"<","f","u">>))
             THEN swapped ELSE w
        ELSE IF Len(w) >= 2 /\ w[1] = "f" /\ w[2] = "e"
        THEN IF s_wins(count(data.trigrams, <<"<","s","e">>),
                       count(data.trigrams, <<"<","f","e">>))
             THEN swapped ELSE w
        ELSE IF Len(w) >= 3 /\ w[1] = "f" /\ w[2] = "i"
        THEN IF s_wins(count(data.fourgrams, <<"<","s","i",w[3]>>),
                       count(data.fourgrams, <<"<","f","i",w[3]>>))
             THEN swapped ELSE w
        ELSE w

\* pass2 from its lowercased word on: the word it hands to restore_case.
pass2_choice(w, data) ==
    LET swapped == <<"s">> \o Tail(w)
    IN  IF w \in ALLOWLIST
        THEN w
        ELSE IF Len(w) >= 2 /\ w[1] = "f" /\ w[2] = "u"
        THEN IF s_wins(count(data.trigrams, <<"<","s","u">>),
                       count(data.trigrams, <<"<","f","u">>))
             THEN swapped ELSE w
        ELSE IF Len(w) >= 2 /\ w[1] = "f" /\ w[2] = "e"
        THEN IF s_wins(count(data.trigrams, <<"<","s","e">>),
                       count(data.trigrams, <<"<","f","e">>))
             THEN swapped ELSE w
        ELSE IF Len(w) >= 3 /\ w[1] = "f" /\ w[2] = "i"
        THEN IF s_wins(count(data.fourgrams, <<"<","s","i",w[3]>>),
                       count(data.fourgrams, <<"<","f","i",w[3]>>))
             THEN swapped ELSE w
        ELSE w

\* pass1 as a function of its word: the rules in the order of the two loops,
\* the word-final 'f', the case pattern.
pass1(w) ==
    LET t1 == apply_rule(str_to_lowercase(w), trigram_rules[1])
        t2 == apply_rule(t1, trigram_rules[2])
        t3 == apply_rule(t2, trigram_rules[3])
        t4 == apply_rule(t3, trigram_rules[4])
        b1 == apply_rule(t4, bigram_rules[1])
        b2 == apply_rule(b1, bigram_rules[2])
        b3 == apply_rule(b2, bigram_rules[3])
    IN  restore_case(replace_final_f(b3), detect_is_upper(w), detect_is_title(w))

\* pass2 as a function of its word and of the table NGRAM_DATA holds.
pass2(w, data) ==
    restore_case(pass2_choice(str_to_lowercase(w), data),
                 detect_is_upper(w), detect_is_title(w))

\* normalize_word as a function.
normalize_word(w, p, data) == IF p THEN pass2(pass1(w), data) ELSE pass1(w)

\* char::is_whitespace, for the whitespace of the model.
is_whitespace(c) == c \in {" ", "\t", "\n"}

\* str::split_whitespace: the maximal runs of non-whitespace, from the left.
\* cur is the token being read, acc the tokens already complete.
RECURSIVE split_scan(_, _, _)
split_scan(t, cur, acc) ==
    IF t = <<>>
    THEN IF cur = <<>> THEN acc ELSE Append(acc, cur)
    ELSE IF is_whitespace(Head(t))
    THEN split_scan(Tail(t), <<>>, IF cur = <<>> THEN acc ELSE Append(acc, cur))
    ELSE split_scan(Tail(t), Append(cur, Head(t)), acc)

split_whitespace(t) == split_scan(t, <<>>, <<>>)

\* join on two spaces instead of one.
RECURSIVE join_double(_, _)
join_double(ws, sep) ==
    IF ws = <<>>
    THEN <<>>
    ELSE IF Len(ws) = 1
    THEN ws[1]
    ELSE ws[1] \o <<sep, sep>> \o join_double(Tail(ws), sep)

\* [String]::join(sep)
RECURSIVE join(_, _)
join(ws, sep) ==
    IF ws = <<>>
    THEN <<>>
    ELSE IF Len(ws) = 1
    THEN ws[1]
    ELSE ws[1] \o <<sep>> \o join(Tail(ws), sep)

\* ---------------------------------------------- index reads of the normalizers
\* A slice chars[from..=to]: the positions it reads, or position 0, which no
\* text has, when the range is not one of the text.
reads_slice(chars, from, to) ==
    IF from >= 1 /\ from <= to + 1 /\ to <= Len(chars) THEN from..to ELSE {0}

\* is_word_boundary: chars[idx - 1] unless idx is the first position.
reads_is_word_boundary(chars, idx) == IF idx = 1 THEN {} ELSE {idx - 1}

\* is_word_end that reads chars[idx + 1] without asking whether idx is the
\* last position.
reads_is_word_end_unguarded(chars, idx) == {idx + 1}

\* is_word_end: chars[idx + 1] unless idx is the last position.
reads_is_word_end(chars, idx) == IF idx = Len(chars) THEN {} ELSE {idx + 1}

\* extract_word: the two while loops read one position beyond the word on
\* each side unless the text ends there; the slice reads the word.
reads_extract_word(chars, idx) ==
    LET start == WordStart(chars, idx)
        end == WordEnd(chars, idx)
    IN  {k - 1 : k \in {s \in start..idx : s > 1}}
            \cup {k + 1 : k \in {e \in idx..end : e < Len(chars)}}
            \cup reads_slice(chars, start, end)

\* classify_uv: chars[idx], the guarded reads of prev..prev3 and next1..next5,
\* extract_word, and the boundary tests of the rules the cascade reaches.
reads_classify_uv(chars, idx) ==
    LET rules == Cascade(chars, idx)
        reached(r) == \A q \in 1..(r - 1) : rules[q] = NoRule
        p == At(chars, idx - 1)
        p2 == At(chars, idx - 2)
        n1 == At(chars, idx + 1)
    IN  {idx}
            \cup {idx - d : d \in {e \in 1..3 : idx - e >= 1}}
            \cup {idx + d : d \in {e \in 1..5 : idx + e <= Len(chars)}}
            \cup reads_extract_word(chars, idx)
            \cup (IF /\ reached(11)
                     /\ to_ascii_lowercase(n1) \in {"u", "v"}
                     /\ p # None /\ ~is_consonant(p) /\ is_vowel(p)
                     /\ to_ascii_lowercase(p) = "i"
                  THEN reads_is_word_boundary(chars, idx - 1) ELSE {})
            \cup (IF /\ reached(12)
                     /\ to_ascii_lowercase(p) \in {"u", "v"}
                     /\ p2 # None /\ ~is_consonant(p2) /\ is_vowel(p2)
                     /\ to_ascii_lowercase(p2) = "i"
                  THEN reads_is_word_boundary(chars, idx - 2) ELSE {})
            \cup (IF reached(13) THEN reads_is_word_boundary(chars, idx) ELSE {})
            \cup (IF reached(16) THEN reads_is_word_end(chars, idx) ELSE {})

\* get_context: the three slices around idx.
reads_get_context(chars, idx, window) ==
    LET start == IF idx - window > 1 THEN idx - window ELSE 1
        end == IF idx + window < Len(chars) THEN idx + window ELSE Len(chars)
    IN  reads_slice(chars, start, idx - 1) \cup {idx}
            \cup reads_slice(chars, idx + 1, end)

\* pass1: replace_range(len - 1..len) when the word ends with 'f'.
reads_replace_final_f(w) ==
    IF Len(w) > 0 /\ w[Len(w)] = "f" THEN reads_slice(w, Len(w), Len(w)) ELSE {}

\* pass2 on its lowercased word: chars[0] and chars[1] behind the length
\* tests, chars[2] for the keys of "fi", chars[1..] for the replaced word.
reads_pass2(w, data) ==
    IF w \in ALLOWLIST
    THEN {}
    ELSE (IF Len(w) >= 2 THEN {1} \cup (IF w[1] = "f" THEN {2} ELSE {}) ELSE {})
            \cup (IF Len(w) >= 3 /\ w[1] = "f" /\ w[2] = "i" THEN {3} ELSE {})
            \cup (IF pass2_choice(w, data) # w
                  THEN reads_slice(w, 2, Len(w)) ELSE {})

\* ------------------------------------------------------------ U/V inputs
\* The alphabet of the exhaustive part: u/v in both cases, two vowels (one of
\* them 'i'), a consonant and a separator.
UVAlphabet == {"u", "v", "V", "a", "i", "r", " "}

RECURSIVE TextsUpTo(_, _)
TextsUpTo(alphabet, n) ==
    IF n = 0
    THEN {<<>>}
    ELSE LET shorter == TextsUpTo(alphabet, n - 1)
         IN  shorter \cup {Append(t, c) : t \in shorter, c \in alphabet}

ToUpperText(t) == [k \in 1..Len(t) |-> to_uppercase(t[k])]

\* The words of the tests of uv.rs.
TestWords ==
    {
      <<"q","u","o","d">>, <<"a","q","u","a">>, <<"q","u","i","n","q","u","e">>,
      <<"l","i","n","g","u","a">>, <<"s","a","n","g","u","i","s">>,
      <<"f","u","i","t">>, <<"p","o","t","u","i","t">>, <<"f","u","i","s","s","e">>,
      <<"f","u","e","r","a","t">>, <<"v","o","l","u","i","t">>,
      <<"s","e","r","u","u","s">>, <<"f","l","u","u","i","u","s">>,
      <<"n","o","u","u","s">>, <<"i","u","u","a","t">>, <<"p","a","r","u","u","s">>,
      <<"u","i","a">>, <<"u","i","r">>, <<"u","o","x">>, <<"u","i","n","u","m">>,
      <<"n","o","u","o">>, <<"b","r","e","u","i","s">>, <<"a","u","i","s">>,
      <<"s","o","l","u","i","t">>, <<"s","t","a","t","u","a">>,
      <<"a","r","d","u","o">>, <<"A","r","m","a"," ","u","i","r","u","m","q","u","e">>,
      <<"S","E","N","A","T","V","S"," ","P","O","P","V","L","V","S","Q","V","E">>
    }

\* Perfect-tense shapes: a stem, the u/v letter, an ending, a tail.
PerfectStems ==
    { <<"v","o","l">>, <<"n","o","l">>, <<"m","a","l">>, <<"u","o","l">>,
      <<"s","o","l">>, <<"f">>, <<"p","o","t">>, <<"d">>, <<"a">>, <<"q">>,
      <<"N","O","L">> }

PerfectEndings ==
    { <<"i">>, <<"i","t">>, <<"i","m","u","s">>, <<"i","s","s","e">>,
      <<"I","S","S","E">>, <<"e","r","e">>, <<"e","r","a">> }

PerfectTails == { <<>>, <<"m">>, <<"n","t">>, <<" ","a">>, <<".">> }

PerfectTexts ==
    { stem \o <<uv>> \o ending \o tail :
        stem \in PerfectStems, uv \in {"u", "v", "U"},
        ending \in PerfectEndings, tail \in PerfectTails }

\* Two words of the tests around a separator.
PairWords ==
    { <<>>, <<"u","i","a">>, <<"n","o","u","u","s">>, <<"f","u","i","t">>,
      <<"i","u","u","a","t">>, <<"s","u","a">>, <<"V","V","A">> }

Separators == {" ", ".", "1"}

PairTexts == { a \o <<s>> \o b : a \in PairWords, s \in Separators, b \in PairWords }

\* Texts with 'q' or 'Q' before what the other rules look at.
QTexts ==
    { <<q>> \o t : q \in {"q", "Q"}, t \in TextsUpTo(UVAlphabet, MaxLen - 1) }
        \cup { <<"a","q","u","a">>, <<"e","q","u","u","s">>, <<"Q","V","I">>,
               <<"q","u","i","s","s","e">>, <<"q","u","i","t">>,
               <<"q","v","e","r","e">>, <<"q","u","i","m","u","s">>,
               <<"l","o","q","u","u","n","t","u","r">>,
               <<"a","Q","v","v","a">>, <<" ","q","V">> }

UVTexts ==
    TextsUpTo(UVAlphabet, MaxLen)
        \cup QTexts
        \cup VOCALIC_U_WORDS
        \cup {ToUpperText(w) : w \in VOCALIC_U_WORDS}
        \cup TestWords
        \cup PerfectTexts
        \cup PairTexts

\* ---------------------------------------------------------- long-s inputs
LSAlphabet == {"f", "u", "m", "p", "e", "F", "M", "1"}

\* Words of the tests of long_s.rs, and words on which the order of the
\* substitutions, overlapping matches or the case pattern matter.
LSTestWords ==
    {
      <<"f","t","a","t","u","a">>, <<"f","p","i","r","i","t","u","s">>,
      <<"f","u","f","c","e","p","i","t">>, <<"f","u","m","m","a">>,
      <<"f","q","u","a","m","a">>, <<"f","p","e","c","i","e","s">>,
      <<"f","t","e","l","l","a">>, <<"f","c","i","e","n","t","i","a">>,
      <<"e","f">>, <<"r","e","u","f">>, <<"f","u","n","t">>, <<"f","u","i","t">>,
      <<"f","u","f","u","m">>, <<"f","u","f","u","f","a">>, <<"f","f","p","e">>,
      <<"f","f","q","u">>, <<"f","u","f","p","e">>, <<"f","e","f">>,
      <<"f","i","t">>, <<"f","i","n","t">>, <<"f","e","d">>, <<"f","i">>,
      <<"e","f","t">>, <<"f","e","l","i","x">>,
      <<"f","u","f","p">>, <<"f","u","f","t">>, <<"f","u","f","c">>,
      <<"f","f","u","m">>, <<"f","u","m","f">>, <<"f","p","e","f">>,
      <<"f","q","u","f","q","u">>, <<"f","t","f","t">>
    }

\* The case patterns a word is written in: as it is, all-uppercase,
\* title-case, and with a capital inside or at its end.
CaseVariants(w) ==
    { w, str_to_uppercase(w),
      [k \in 1..Len(w) |-> IF k = 1 THEN to_uppercase(w[k]) ELSE w[k]],
      [k \in 1..Len(w) |-> IF k = Len(w) THEN to_uppercase(w[k]) ELSE w[k]],
      [k \in 1..Len(w) |-> IF k <= 2 THEN to_uppercase(w[k]) ELSE w[k]] }

\* Every allowlist word in lowercase, title-case and uppercase.
AllowlistForms ==
    UNION { { w, str_to_uppercase(w),
              [k \in 1..Len(w) |-> IF k = 1 THEN to_uppercase(w[k]) ELSE w[k]] } :
            w \in ALLOWLIST }

LSWords ==
    TextsUpTo(LSAlphabet, MaxWordLen)
        \cup UNION {CaseVariants(w) : w \in LSTestWords}
        \cup AllowlistForms

\* The texts of normalize_text: every text up to MaxTextLen over a small
\* alphabet with two kinds of whitespace, and the texts of the tests.
LSTextAlphabet == {"f", "u", " ", "\n"}

LSTestTexts ==
    {
      <<"f","t","a","t","u","a"," "," ","f","p","i","r","i","t","u","s">>,
      <<"f","t","a","t","u","a"," ","f","p","i","r","i","t","u","s"," ","f","u","n","t">>,
      <<"S","i","c"," ","u","i","t","a"," ","e","f","t">>,
      <<" ","F","u","\t","e","f","\n">>,
      <<"\t"," ","\n">>
    }

LSTexts == TextsUpTo(LSTextAlphabet, MaxTextLen) \cup LSTestTexts

\* The frequency tables of the model: every f-key has one count and every
\* s-key another; the fourgram keys exist for the third letters 't' and 'n'.
TrigramKeys == {<<"<","f","u">>, <<"<","s","u">>, <<"<","f","e">>, <<"<","s","e">>}

FourgramKeys == {<<"<", c, "i", x>> : c \in {"f", "s"}, x \in {"t", "n"}}

Tables ==
    { [bigrams |-> <<>>,
       trigrams |-> [key \in TrigramKeys |-> IF key[2] = "f" THEN f ELSE sc],
       fourgrams |-> [key \in FourgramKeys |-> IF key[2] = "f" THEN f ELSE sc]] :
        f \in 0..MaxCount, sc \in 0..MaxCount }

\* Tables whose keys differ: the f-key and the s-key of one prefix (the rest of
\* the key after its second character) have the counts f and sc, the keys of
\* the other prefixes have them the other way round, and a key whose count is
\* 0 is missing from the table.
KeyTails == {<<"u">>, <<"e">>, <<"i","t">>, <<"i","n">>}

KeyedCount(focus, key, f, sc) ==
    IF (SubSeq(key, 3, Len(key)) = focus) = (key[2] = "f") THEN f ELSE sc

KeyedTables ==
    { [bigrams |-> <<>>,
       trigrams |->
           [key \in {k \in TrigramKeys : KeyedCount(focus, k, f, sc) > 0} |->
               KeyedCount(focus, key, f, sc)],
       fourgrams |->
           [key \in {k \in FourgramKeys : KeyedCount(focus, k, f, sc) > 0} |->
               KeyedCount(focus, key, f, sc)]] :
        focus \in KeyTails, f \in 0..MaxCount, sc \in 0..MaxCount }

\* The tables the data files may hold; the direct calls of pass2 are explored
\* over the tables whose keys differ as well.
LoadableTables(entry) ==
    IF entry = "pass2" THEN Tables \cup KeyedTables ELSE Tables

\* NGRAM_DATA before its first use.
Unloaded == [loaded |-> FALSE]

\* ------------------------------------------------------------------ state
VARIABLES
    input,      \* the text the caller first passed to uv::normalize
    chars,      \* normalize: the characters of its argument
    i,          \* normalize: how many characters the loop has handled
    result,     \* normalize: the String being built, then returned
    pc,         \* "idle": before a call, "loop": in the for loop, "done": returned
    calls,      \* how many calls of normalize have returned
    api,        \* the long-s entry point called: "normalize_word", "pass2"
    word,       \* its word argument
    apply_pass2,\* normalize_word's flag
    lpc,        \* where the long-s call is: "pass1", "trigrams", "bigrams",
                \* "final", "pass2", "decide", "done"
    normalized, \* the working String of pass1, then of pass2
    is_upper,   \* the detected case pattern
    is_title,
    rule,       \* the index of the rule loop
    p2arg,      \* the word passed to pass2
    NGRAM_DATA, \* the lazily loaded frequency table
    out,        \* the word the long-s call returned
    text,       \* normalize_text: its text argument
    tokens,     \* normalize_text: the tokens split_whitespace yields
    outs,       \* normalize_text: the normalized tokens collected so far
    text_out,   \* normalize_text: the text it returned
    lcalls,     \* how many long-s calls the caller has made
    changes,    \* normalize_detailed: the ChangeRecords pushed so far
    inits,      \* how many times the initializer of NGRAM_DATA has run
    callers     \* concurrent callers: where each one is in its call

uvVars == <<input, chars, i, result, pc, calls>>
lsVars == <<api, word, apply_pass2, lpc, normalized, is_upper, is_title, rule,
            p2arg, NGRAM_DATA, out>>
lsVars_but_lpc == <<api, word, apply_pass2, normalized, is_upper, is_title, rule,
                    p2arg, NGRAM_DATA, out>>
txVars == <<text, tokens, outs, text_out, lcalls>>
dtVars == <<changes>>
ccVars == <<inits, callers>>
vars == <<uvVars, lsVars, txVars, dtVars, ccVars>>

\* No U/V call is running or has run.
UVIdle ==
    /\ input = <<>>
    /\ chars = <<>>
    /\ i = 0
    /\ result = <<>>
    /\ pc = "off"
    /\ calls = 0

\* No long-s call is running or has run.
LSIdle ==
    /\ api = "none"
    /\ word = <<>>
    /\ apply_pass2 = FALSE
    /\ lpc = "off"
    /\ normalized = <<>>
    /\ is_upper = FALSE
    /\ is_title = FALSE
    /\ rule = 0
    /\ p2arg = <<>>
    /\ NGRAM_DATA = Unloaded
    /\ out = <<>>
    /\ text = <<>>
    /\ tokens = <<>>
    /\ outs = <<>>
    /\ text_out = <<>>
    /\ lcalls = 0
    /\ inits = 0

\* No normalize_detailed call has pushed a record, no concurrent caller runs.
NoDetail == changes = <<>>
NoCallers == callers = <<>>

Init ==
    /\ input \in UVTexts
    /\ chars = input
    /\ i = 0
    /\ result = <<>>
    /\ pc = "idle"
    /\ calls = 0
    /\ LSIdle
    /\ NoDetail
    /\ NoCallers

\* normalize(text): the empty text returns at once, any other enters the loop.
NormalizeCall ==
    /\ pc = "idle"
    /\ IF chars = <<>>
       THEN /\ pc' = "done"
            /\ calls' = calls + 1
       ELSE /\ pc' = "loop"
            /\ calls' = calls
    /\ i' = 0
    /\ result' = <<>>
    /\ UNCHANGED <<input, chars, lsVars, txVars, dtVars, ccVars>>

\* One iteration of the for loop: push the character for position i + 1.
NormalizeStep ==
    /\ pc = "loop"
    /\ i < Len(chars)
    /\ result' = Append(result, normalize_push(chars, i + 1))
    /\ i' = i + 1
    /\ UNCHANGED <<input, chars, pc, calls, lsVars, txVars, dtVars, ccVars>>

\* The loop is over: normalize returns result.
NormalizeReturn ==
    /\ pc = "loop"
    /\ i = Len(chars)
    /\ pc' = "done"
    /\ calls' = calls + 1
    /\ UNCHANGED <<input, chars, i, result, lsVars, txVars, dtVars, ccVars>>

\* normalize_detailed(text), called on the caller's own text: the empty text
\* returns at once with no change, any other enters the loop.
DetailedCall ==
    /\ pc = "idle"
    /\ calls = 0
    /\ pc' = (IF chars = <<>> THEN "d_done" ELSE "d_loop")
    /\ i' = 0
    /\ result' = <<>>
    /\ changes' = <<>>
    /\ UNCHANGED <<input, chars, calls, lsVars, txVars, ccVars>>

\* One iteration of the for loop of normalize_detailed: push the character
\* for position i + 1 and, when it differs from the original, its record.
DetailedStep ==
    /\ pc = "d_loop"
    /\ i < Len(chars)
    /\ result' = Append(result, normalize_push(chars, i + 1))
    /\ changes' = changes \o changes_push(chars, i + 1)
    /\ i' = i + 1
    /\ UNCHANGED <<input, chars, pc, calls, lsVars, txVars, ccVars>>

\* The loop is over: normalize_detailed returns original, normalized, changes.
DetailedReturn ==
    /\ pc = "d_loop"
    /\ i = Len(chars)
    /\ pc' = "d_done"
    /\ UNCHANGED <<input, chars, i, result, calls, lsVars, txVars, dtVars, ccVars>>

\* The caller passes the returned text to normalize again.
Renormalize ==
    /\ pc = "done"
    /\ calls < MaxCalls
    /\ chars' = result
    /\ pc' = "idle"
    /\ UNCHANGED <<input, i, result, calls, lsVars, txVars, dtVars, ccVars>>

Next ==
    NormalizeCall \/ NormalizeStep \/ NormalizeReturn \/ Renormalize
        \/ DetailedCall \/ DetailedStep \/ DetailedReturn

Spec == Init /\ [][Next]_vars

\* --------------------------------------------------------- long-s machine
\* A caller calls normalize_word(word, apply_pass2), normalize_text(text,
\* apply_pass2), or pass2(word, 2.0) through normalize_long_s_word_pass2.
InitLongS ==
    /\ UVIdle
    /\ NoDetail
    /\ NoCallers
    /\ api \in {"normalize_word", "pass2", "normalize_text"}
    /\ word \in (IF api = "normalize_text" THEN {<<>>} ELSE LSWords)
    /\ text \in (IF api = "normalize_text" THEN LSTexts ELSE {<<>>})
    /\ apply_pass2 \in (IF api = "pass2" THEN {TRUE} ELSE BOOLEAN)
    /\ lpc = (CASE api = "pass2" -> "pass2"
                [] api = "normalize_word" -> "pass1"
                [] api = "normalize_text" -> "text")
    /\ p2arg = (IF api = "pass2" THEN word ELSE <<>>)
    /\ normalized = <<>>
    /\ is_upper = FALSE
    /\ is_title = FALSE
    /\ rule = 0
    /\ NGRAM_DATA = Unloaded
    /\ out = <<>>
    /\ tokens = <<>>
    /\ outs = <<>>
    /\ text_out = <<>>
    /\ lcalls = 1
    /\ inits = 0

\* Where a returning normalize_word or pass2 goes: back into the map of
\* normalize_text, or back to the caller.
ReturnTo == IF api = "normalize_text" THEN "collect" ELSE "done"

\* pass1: detect the case pattern, lowercase.
Pass1Begin ==
    /\ lpc = "pass1"
    /\ is_upper' = detect_is_upper(word)
    /\ is_title' = detect_is_title(word)
    /\ normalized' = str_to_lowercase(word)
    /\ rule' = 1
    /\ lpc' = "trigrams"
    /\ UNCHANGED <<uvVars, txVars, dtVars, ccVars, api, word, apply_pass2, p2arg,
                   NGRAM_DATA, out>>

\* pass1: one iteration of the loop over trigram_rules.
Pass1Trigram ==
    /\ lpc = "trigrams"
    /\ normalized' = apply_rule(normalized, trigram_rules[rule])
    /\ IF rule < Len(trigram_rules)
       THEN rule' = rule + 1 /\ lpc' = lpc
       ELSE rule' = 1 /\ lpc' = "bigrams"
    /\ UNCHANGED <<uvVars, txVars, dtVars, ccVars, api, word, apply_pass2,
                   is_upper, is_title, p2arg, NGRAM_DATA, out>>

\* pass1: one iteration of the loop over bigram_rules.
Pass1Bigram ==
    /\ lpc = "bigrams"
    /\ normalized' = apply_rule(normalized, bigram_rules[rule])
    /\ IF rule < Len(bigram_rules)
       THEN rule' = rule + 1 /\ lpc' = lpc
       ELSE rule' = 0 /\ lpc' = "final"
    /\ UNCHANGED <<uvVars, txVars, dtVars, ccVars, api, word, apply_pass2,
                   is_upper, is_title, p2arg, NGRAM_DATA, out>>

\* pass1: the word-final 'f', the case pattern, the return to normalize_word,
\* which returns the word or passes it to pass2.
Pass1Finish ==
    /\ lpc = "final"
    /\ LET returned == restore_case(replace_final_f(normalized), is_upper, is_title)
       IN  /\ normalized' = returned
           /\ IF apply_pass2
              THEN /\ p2arg' = returned
                   /\ lpc' = "pass2"
                   /\ out' = out
              ELSE /\ p2arg' = p2arg
                   /\ lpc' = ReturnTo
                   /\ out' = returned
    /\ UNCHANGED <<uvVars, txVars, dtVars, ccVars, api, word, apply_pass2,
                   is_upper, is_title, rule, NGRAM_DATA>>

\* pass2 up to `let data = &*NGRAM_DATA`: detect the case pattern, lowercase,
\* dereference NGRAM_DATA, whose first dereference runs the initializer; the
\* table it loads is one the data files may hold.
Pass2Begin ==
    /\ lpc = "pass2"
    /\ is_upper' = detect_is_upper(p2arg)
    /\ is_title' = detect_is_title(p2arg)
    /\ normalized' = str_to_lowercase(p2arg)
    /\ IF NGRAM_DATA = Unloaded
       THEN NGRAM_DATA' \in LoadableTables(api) /\ inits' = inits + 1
       ELSE NGRAM_DATA' = NGRAM_DATA /\ inits' = inits
    /\ lpc' = "decide"
    /\ UNCHANGED <<uvVars, txVars, dtVars, callers, api, word, apply_pass2, rule,
                   p2arg, out>>

\* pass2: the allowlist, the statistical test, the case pattern, the return.
Pass2Decide ==
    /\ lpc = "decide"
    /\ out' = restore_case(pass2_choice(normalized, NGRAM_DATA), is_upper, is_title)
    /\ lpc' = ReturnTo
    /\ UNCHANGED <<uvVars, txVars, dtVars, ccVars, api, word, apply_pass2,
                   normalized, is_upper, is_title, rule, p2arg, NGRAM_DATA>>

\* normalize_text: split the text on whitespace.
TextSplit ==
    /\ lpc = "text"
    /\ tokens' = split_whitespace(text)
    /\ outs' = <<>>
    /\ lpc' = "map"
    /\ UNCHANGED <<uvVars, lsVars_but_lpc, dtVars, ccVars, text, text_out, lcalls>>

\* normalize_text: the map calls normalize_word on the next token.
TextMap ==
    /\ lpc = "map"
    /\ Len(outs) < Len(tokens)
    /\ word' = tokens[Len(outs) + 1]
    /\ lpc' = "pass1"
    /\ UNCHANGED <<uvVars, txVars, dtVars, ccVars, api, apply_pass2, normalized,
                   is_upper, is_title, rule, p2arg, NGRAM_DATA, out>>

\* normalize_text: the word normalize_word returned is collected.
TextCollect ==
    /\ lpc = "collect"
    /\ outs' = Append(outs, out)
    /\ lpc' = "map"
    /\ UNCHANGED <<uvVars, lsVars_but_lpc, dtVars, ccVars, text, tokens, text_out,
                   lcalls>>

\* normalize_text: every token is done; join on one space and return.
TextJoin ==
    /\ lpc = "map"
    /\ Len(outs) = Len(tokens)
    /\ text_out' = join(outs, " ")
    /\ lpc' = "done"
    /\ UNCHANGED <<uvVars, lsVars_but_lpc, dtVars, ccVars, text, tokens, outs,
                   lcalls>>

\* The caller passes what normalize_word or normalize_text returned to the
\* same function again, with the same flag.
LongSAgain ==
    /\ lpc = "done"
    /\ lcalls < MaxCalls
    /\ api \in {"normalize_word", "normalize_text"}
    /\ lcalls' = lcalls + 1
    /\ IF api = "normalize_word"
       THEN /\ word' = out
            /\ lpc' = "pass1"
            /\ UNCHANGED <<text, tokens, outs>>
       ELSE /\ text' = text_out
            /\ tokens' = <<>>
            /\ outs' = <<>>
            /\ lpc' = "text"
            /\ UNCHANGED word
    /\ UNCHANGED <<uvVars, dtVars, ccVars, api, apply_pass2, normalized, is_upper,
                   is_title, rule, p2arg, NGRAM_DATA, out, text_out>>

NextLongS ==
    Pass1Begin \/ Pass1Trigram \/ Pass1Bigram \/ Pass1Finish \/ Pass2Begin
        \/ Pass2Decide \/ TextSplit \/ TextMap \/ TextCollect \/ TextJoin
        \/ LongSAgain

SpecLongS == InitLongS /\ [][NextLongS]_vars

\* ------------------------------------------------------- concurrent callers
\* std::sync::LazyLock: NGRAM_DATA while one caller runs its initializer, and
\* after the initializer has panicked.
Initializing == [loaded |-> FALSE, running |-> TRUE]
Poisoned == [loaded |-> FALSE, poisoned |-> TRUE]

\* A dereference that runs the initializer although another caller is already
\* running it.
lazy_lock_runs_initializer_unsynchronized(data) == data \in {Unloaded, Initializing}

\* LazyLock::force: the dereference that finds the cell not yet initialized
\* runs the initializer; one that finds it running waits for it.
lazy_lock_runs_initializer(data) == data = Unloaded

lazy_lock_waits(data) == data = Initializing

Callers == 1..NumCallers

\* A caller between two calls. invoked: it has entered pass2 at least once.
IdleCaller == [call |-> "none", flag |-> FALSE, left |-> 0, at |-> "idle",
               invoked |-> FALSE]

InitConcurrent ==
    /\ UVIdle
    /\ LSIdle
    /\ NoDetail
    /\ callers = [c \in Callers |-> IdleCaller]

\* The caller's word is done: it returns, or normalize_text maps the next token.
AfterWord(c) ==
    IF callers[c].left > 1
    THEN [callers[c] EXCEPT !.left = @ - 1, !.at = "pass1"]
    ELSE [callers[c] EXCEPT !.call = "none", !.flag = FALSE, !.left = 0,
                            !.at = "idle"]

\* A caller calls uv::normalize, normalize_word or normalize_text.
CallerCalls(c) ==
    /\ callers[c].at = "idle"
    /\ \E call \in {"normalize", "normalize_word", "normalize_text"},
          flag \in BOOLEAN, n \in 0..MaxTokens :
          /\ call = "normalize" => ~flag /\ n = 0
          /\ call = "normalize_word" => n = 1
          /\ callers' = [callers EXCEPT ![c] =
                 [@ EXCEPT !.call = call, !.flag = flag, !.left = n,
                           !.at = IF call = "normalize" THEN "uv"
                                  ELSE IF n = 0 THEN "return" ELSE "pass1"]]
    /\ UNCHANGED <<uvVars, lsVars, txVars, dtVars, inits>>

\* uv::normalize, or normalize_text on a text without a token, returns: neither
\* touches NGRAM_DATA.
CallerReturns(c) ==
    /\ callers[c].at \in {"uv", "return"}
    /\ callers' = [callers EXCEPT ![c] =
           [@ EXCEPT !.call = "none", !.flag = FALSE, !.left = 0, !.at = "idle"]]
    /\ UNCHANGED <<uvVars, lsVars, txVars, dtVars, inits>>

\* pass1 returns: normalize_word returns its word or invokes pass2.
CallerPass1(c) ==
    /\ callers[c].at = "pass1"
    /\ callers' = [callers EXCEPT ![c] =
           IF @.flag
           THEN [@ EXCEPT !.at = "pass2", !.invoked = TRUE]
           ELSE AfterWord(c)]
    /\ UNCHANGED <<uvVars, lsVars, txVars, dtVars, inits>>

\* pass2 at `&*NGRAM_DATA`: the caller runs the initializer, or waits for the
\* caller that runs it, or panics on a poisoned cell, or gets the table.
CallerDeref(c) ==
    /\ callers[c].at = "pass2"
    /\ ~lazy_lock_waits(NGRAM_DATA) \/ lazy_lock_runs_initializer(NGRAM_DATA)
    /\ IF lazy_lock_runs_initializer(NGRAM_DATA)
       THEN /\ NGRAM_DATA' = Initializing
            /\ inits' = inits + 1
            /\ callers' = [callers EXCEPT ![c].at = "init"]
       ELSE /\ NGRAM_DATA' = NGRAM_DATA
            /\ inits' = inits
            /\ callers' = [callers EXCEPT ![c].at =
                   IF NGRAM_DATA = Poisoned THEN "panicked" ELSE "lookup"]
    /\ UNCHANGED <<uvVars, txVars, dtVars, api, word, apply_pass2, lpc, normalized,
                   is_upper, is_title, rule, p2arg, out>>

\* The initializer ends: it returns the table the data files hold, or it
\* panics on a file it cannot read or parse and leaves the cell poisoned.
CallerInitializes(c) ==
    /\ callers[c].at = "init"
    /\ \/ /\ NGRAM_DATA' \in LoadableTables(callers[c].call)
          /\ callers' = [callers EXCEPT ![c].at = "lookup"]
       \/ /\ NGRAM_DATA' = Poisoned
          /\ callers' = [callers EXCEPT ![c].at = "panicked"]
    /\ UNCHANGED <<uvVars, txVars, dtVars, inits, api, word, apply_pass2, lpc,
                   normalized, is_upper, is_title, rule, p2arg, out>>

\* pass2 looks its counts up in the shared table and returns.
CallerLooksUp(c) ==
    /\ callers[c].at = "lookup"
    /\ callers' = [callers EXCEPT ![c] = AfterWord(c)]
    /\ UNCHANGED <<uvVars, lsVars, txVars, dtVars, inits>>

NextConcurrent ==
    \E c \in Callers :
        CallerCalls(c) \/ CallerReturns(c) \/ CallerPass1(c) \/ CallerDeref(c)
            \/ CallerInitializes(c) \/ CallerLooksUp(c)

SpecConcurrent == InitConcurrent /\ [][NextConcurrent]_vars

\* ------------------------------------------------------ all the normalizers
\* A caller calls one of the normalizers, normalize, normalize_detailed,
\* normalize_word or normalize_text, on the empty text, on a single letter or
\* on any short text.
InitBoundary ==
    \/ /\ input \in TextsUpTo(UVAlphabet, MaxLen)
       /\ chars = input
       /\ i = 0
       /\ result = <<>>
       /\ pc = "idle"
       /\ calls = 0
       /\ LSIdle
       /\ NoDetail
       /\ NoCallers
    \/ /\ UVIdle
       /\ NoDetail
       /\ NoCallers
       /\ api \in {"normalize_word", "normalize_text"}
       /\ word \in (IF api = "normalize_text"
                    THEN {<<>>}
                    ELSE TextsUpTo(LSAlphabet, MaxWordLen) \cup LSTestWords)
       /\ text \in (IF api = "normalize_text" THEN LSTexts ELSE {<<>>})
       /\ apply_pass2 \in BOOLEAN
       /\ lpc = (IF api = "normalize_word" THEN "pass1" ELSE "text")
       /\ p2arg = <<>>
       /\ normalized = <<>>
       /\ is_upper = FALSE
       /\ is_title = FALSE
       /\ rule = 0
       /\ NGRAM_DATA = Unloaded
       /\ out = <<>>
       /\ tokens = <<>>
       /\ outs = <<>>
       /\ text_out = <<>>
       /\ lcalls = 1
       /\ inits = 0

NextBoundary == Next \/ NextLongS

SpecBoundary == InitBoundary /\ [][NextBoundary]_vars

\* ------------------------------------------------ properties of uv::normalize
\* The positions normalize has already pushed a character for.
Pushed == IF pc \in {"loop", "done"} THEN 1..Len(result) ELSE {}

\* Some rule before Rule 5 (rules 1-4) matches at idx.
DecidedByRules1to4(cs, idx) ==
    LET rules == Cascade(cs, idx)
    IN  \E r \in 1..10 : rules[r] # NoRule

\* Some rule before the -uisse heuristic matches at idx.
DecidedBeforeUisse(cs, idx) ==
    LET rules == Cascade(cs, idx)
    IN  \E r \in 1..8 : rules[r] # NoRule

\* C1: U/V normalization is idempotent: normalizing the text a first call
\* returned gives that text back.
C1_Idempotent ==
    (pc = "done" /\ calls = 2) => result = chars

\* C2: the output has as many characters as the text; a character that is not
\* one of u, U, v, V is kept; a u/v letter becomes u or v in its own case.
C2_Frame ==
    /\ pc \in {"loop", "done"} => Len(result) = i
    /\ pc = "done" => Len(result) = Len(chars)
    /\ \A k \in Pushed :
          /\ chars[k] \notin {"u", "U", "v", "V"} => result[k] = chars[k]
          /\ chars[k] \in {"u", "v"} => result[k] \in {"u", "v"}
          /\ chars[k] \in {"U", "V"} => result[k] \in {"U", "V"}

C2_Witness ==
    /\ pc = "done"
    /\ \E k \in 1..Len(chars) : chars[k] = "V" /\ result[k] = "U"
    /\ \E k \in 1..Len(chars) : chars[k] = "u" /\ result[k] = "v"
    /\ \E k \in 1..Len(chars) : chars[k] = " "

\* C3: every word of the vocalic-exception word set is returned unchanged.
C3_WordExceptionsUnchanged ==
    (pc = "done" /\ calls = 1 /\ input \in VOCALIC_U_WORDS) => result = input

\* C4: the first letter of a doubled u/v that rules 1-4 leave undecided is 'v'
\* after vowel+consonant, 'u' after consonant+consonant or a consonant at the
\* word start, and after a vowel 'v' unless that vowel is a word-initial 'i',
\* then 'u'.
C4_DoubleFirst ==
    \A k \in Pushed :
        LET p == At(chars, k - 1)
            p2 == At(chars, k - 2)
            letter == to_ascii_lowercase(result[k])
        IN  ( /\ is_uv(chars[k])
              /\ is_uv(At(chars, k + 1))
              /\ ~DecidedByRules1to4(chars, k) )
            => /\ (is_consonant(p) /\ is_vowel(p2)) => letter = "v"
               /\ ( is_consonant(p)
                    /\ (is_consonant(p2) \/ is_word_boundary(chars, k - 1)) )
                  => letter = "u"
               /\ ( is_vowel(p)
                    /\ to_ascii_lowercase(p) = "i"
                    /\ is_word_boundary(chars, k - 1) )
                  => letter = "u"
               /\ ( is_vowel(p)
                    /\ ~( to_ascii_lowercase(p) = "i"
                          /\ is_word_boundary(chars, k - 1) ) )
                  => letter = "v"

C4_Witness ==
    /\ pc = "done"
    /\ input = <<"i", "u", "u", "a", "t">>
    /\ result = <<"i", "u", "v", "a", "t">>

\* C5: in a word that starts with vol, nol or mal, a u/v letter after 'l' and
\* before a word-final "i" or a word-final "it" is classified 'u'.
C5_VoloPerfect ==
    \A k \in Pushed :
        LET w == extract_word(chars, k)
            n1 == to_ascii_lowercase(At(chars, k + 1))
            n2 == to_ascii_lowercase(At(chars, k + 2))
        IN  ( /\ is_uv(chars[k])
              /\ \/ starts_with(w, <<"v", "o", "l">>)
                 \/ starts_with(w, <<"n", "o", "l">>)
                 \/ starts_with(w, <<"m", "a", "l">>)
              /\ to_ascii_lowercase(At(chars, k - 1)) = "l"
              /\ n1 = "i"
              /\ \/ IsEnd(At(chars, k + 2))
                 \/ n2 = "t" /\ IsEnd(At(chars, k + 3)) )
            => to_ascii_lowercase(result[k]) = "u"

\* The shape of the -uisse claims: a u/v letter after a consonant and before
\* "isse", which no earlier rule decides.
UisseCase(cs, k) ==
    /\ is_uv(cs[k])
    /\ is_consonant(At(cs, k - 1))
    /\ to_ascii_lowercase(At(cs, k + 1)) = "i"
    /\ to_ascii_lowercase(At(cs, k + 2)) = "s"
    /\ to_ascii_lowercase(At(cs, k + 3)) = "s"
    /\ to_ascii_lowercase(At(cs, k + 4)) = "e"
    /\ ~DecidedBeforeUisse(cs, k)

\* C6 as stated: a u/v letter after a consonant and before "isse" is 'u',
\* whatever follows "isse" in the word, when no earlier rule has matched.
C6_UisseAnywhere ==
    \A k \in Pushed :
        UisseCase(chars, k) => to_ascii_lowercase(result[k]) = "u"

\* C6, amended: a u/v letter after a consonant and before a word-final "isse"
\* ("isse" followed by the end of the text or by a non-alphabetic character)
\* is 'u', when no earlier rule has matched.
C6_UisseWordFinal ==
    \A k \in Pushed :
        (UisseCase(chars, k) /\ IsEnd(At(chars, k + 5)))
            => to_ascii_lowercase(result[k]) = "u"

C6_Witness ==
    /\ pc = "done"
    /\ input = <<"s", "o", "l", "v", "i", "s", "s", "e", " ", "a">>
    /\ result = <<"s", "o", "l", "u", "i", "s", "s", "e", " ", "a">>

\* C7: a letter's classification depends only on its word: around every
\* non-alphabetic character s, normalize(a + s + b) is normalize(a), then s,
\* then normalize(b).
C7_WordLocal ==
    pc = "done" =>
        \A k \in 1..Len(chars) :
            ~is_alpha(chars[k]) =>
                result = normalize(SubSeq(chars, 1, k - 1))
                            \o <<chars[k]>>
                            \o normalize(SubSeq(chars, k + 1, Len(chars)))

C7_Witness ==
    /\ pc = "done"
    /\ input = <<"n", "o", "u", "u", "s", ".", "u", "i", "a">>
    /\ result = <<"n", "o", "v", "u", "s", ".", "v", "i", "a">>

\* ------------------------------------------- properties of the long-s passes
\* The sequential reference of Pass 1: each substitution applied to the whole
\* word before the next one starts, then the word-final 'f'.
Pass1Reference(w) ==
    LET a == replace(w, <<"f","q","u">>, <<"s","q","u">>)
        b == replace(a, <<"f","p","e">>, <<"s","p","e">>)
        c == replace(b, <<"f","u","f">>, <<"s","u","s">>)
        d == replace(c, <<"f","u","m">>, <<"s","u","m">>)
        e == replace(d, <<"f","p">>, <<"s","p">>)
        f == replace(e, <<"f","t">>, <<"s","t">>)
        g == replace(f, <<"f","c">>, <<"s","c">>)
    IN  IF g # <<>> /\ g[Len(g)] = "f"
        THEN SubSeq(g, 1, Len(g) - 1) \o <<"s">>
        ELSE g

\* C8: Pass 1 on a lowercase word equals the sequential reference, and no
\* frequency table is consulted.
C8_Pass1Sequential ==
    (api = "normalize_word" /\ lcalls = 1 /\ word = str_to_lowercase(word)) =>
        /\ lpc = "pass2" =>
              p2arg = Pass1Reference(word) /\ NGRAM_DATA = Unloaded
        /\ (lpc = "done" /\ ~apply_pass2) =>
              out = Pass1Reference(word) /\ NGRAM_DATA = Unloaded

C8_Witness ==
    /\ lpc = "done"
    /\ ~apply_pass2
    /\ word = <<"f","u","f","u","m">>
    /\ out = <<"s","u","s","u","m">>

SameCase(a, b) ==
    /\ is_uppercase(a) <=> is_uppercase(b)
    /\ is_lowercase(a) <=> is_lowercase(b)

\* C9: each letter of normalize_word(w, applyPass2) has the case of the letter
\* of w at the same position.
C9_CasePreserved ==
    (lpc = "done" /\ api = "normalize_word") =>
        /\ Len(out) = Len(word)
        /\ \A k \in 1..Len(word) : SameCase(out[k], word[k])

\* The case pattern of w, reapplied to r.
CasePatternOf(w, r) ==
    IF Len(w) > 1 /\ \A k \in 1..Len(w) : ~is_lowercase(w[k])
    THEN \A k \in 1..Len(r) : ~is_lowercase(r[k])
    ELSE IF w # <<>> /\ is_uppercase(w[1])
    THEN /\ r # <<>>
         /\ is_uppercase(r[1])
         /\ \A k \in 2..Len(r) : ~is_uppercase(r[k])
    ELSE \A k \in 1..Len(r) : ~is_uppercase(r[k])

\* C10: Pass 1 and Pass 2 return their word in the case pattern of the word
\* they were given: all-uppercase for a word of more than one character without
\* a lowercase letter, else first letter uppercase and the rest lowercase when
\* the first letter is uppercase, else all-lowercase.
C10_CasePattern ==
    /\ (api = "normalize_word" /\ lpc = "pass2") => CasePatternOf(word, p2arg)
    /\ (api = "normalize_word" /\ lpc = "done" /\ ~apply_pass2)
          => CasePatternOf(word, out)
    /\ (lpc = "done" /\ apply_pass2) => CasePatternOf(p2arg, out)

C10_Witness ==
    /\ lpc = "done"
    /\ api = "pass2"
    /\ word = <<"F","u","M">>
    /\ out \in {<<"F","u","m">>, <<"S","u","m">>}

\* ------------------------------------------- properties of repeated long-s calls
\* C11: normalize_word(normalize_word(w, p), p) = normalize_word(w, p) and
\* normalize_text(normalize_text(t, p), p) = normalize_text(t, p), for both
\* values of the flag and every table: the second call, made on what the first
\* returned, returns its argument.
C11_LongSIdempotent ==
    (lpc = "done" /\ lcalls = 2) =>
        /\ api = "normalize_word" => out = word
        /\ api = "normalize_text" => text_out = text

\* A second call has returned on a word Pass 1 changed, on a word Pass 2
\* changed, and on a text whose words and whitespace changed.
C11_Witness ==
    /\ lpc = "done"
    /\ lcalls = 2
    /\ \/ api = "normalize_word" /\ ~apply_pass2
          /\ word = <<"s","t","a","t","u","a">> /\ out = word
       \/ api = "normalize_word" /\ apply_pass2
          /\ word = <<"s","u","n","t">> /\ out = word
       \/ api = "normalize_text"
          /\ text = <<"s","t","a","t","u","a"," ","s","p","i","r","i","t","u","s">>
          /\ text_out = text

\* ---------------------------------------------------- properties of the allowlist
\* C12: every allowlist word, in lowercase, in title-case or in uppercase, is
\* returned unchanged by normalize_word(w, true), whatever the table holds.
C12_AllowlistUnchanged ==
    (lpc = "done" /\ api = "normalize_word" /\ apply_pass2
        /\ word \in AllowlistForms) => out = word

\* An allowlist word in title-case has come back unchanged under a table whose
\* counts would have turned its "fu" into "su".
C12_Witness ==
    /\ lpc = "done"
    /\ api = "normalize_word"
    /\ apply_pass2
    /\ word = <<"F","u","i","t">>
    /\ out = word
    /\ s_wins(count(NGRAM_DATA.trigrams, <<"<","s","u">>),
              count(NGRAM_DATA.trigrams, <<"<","f","u">>))

\* ------------------------------------------------------- properties of Pass 2
\* The count the table holds for a key, 0 for a key it does not hold.
CountOf(map, key) == IF key \in DOMAIN map THEN map[key] ELSE 0

\* The s-key's count is more than Threshold times the f-key's, and not zero.
StatisticalGate(map, s_key, f_key) ==
    /\ CountOf(map, s_key) > Threshold * CountOf(map, f_key)
    /\ CountOf(map, s_key) > 0

\* The condition under which Pass 2 is to replace the leading 'f' of w.
MustReplace(w, data) ==
    /\ w \notin ALLOWLIST
    /\ \/ /\ Len(w) >= 2
          /\ SubSeq(w, 1, 2) = <<"f","u">>
          /\ StatisticalGate(data.trigrams, <<"<","s","u">>, <<"<","f","u">>)
       \/ /\ Len(w) >= 2
          /\ SubSeq(w, 1, 2) = <<"f","e">>
          /\ StatisticalGate(data.trigrams, <<"<","s","e">>, <<"<","f","e">>)
       \/ /\ Len(w) >= 3
          /\ SubSeq(w, 1, 2) = <<"f","i">>
          /\ StatisticalGate(data.fourgrams, <<"<","s","i",w[3]>>,
                             <<"<","f","i",w[3]>>)

\* C13: on a lowercase word, Pass 2 returns the word with 's' in place of its
\* leading 'f' exactly when the word is not in the allowlist, starts with
\* "fu", "fe" or "fi"+X, and the count of the s-key is more than Threshold
\* times the count of the f-key and more than zero, a missing key counting as
\* zero; in every other case it returns the word as it is.
C13_Pass2Gate ==
    (lpc = "done" /\ apply_pass2 /\ api \in {"pass2", "normalize_word"}
        /\ p2arg = str_to_lowercase(p2arg)) =>
        IF MustReplace(p2arg, NGRAM_DATA)
        THEN out = <<"s">> \o Tail(p2arg)
        ELSE out = p2arg

\* Pass 2 has turned "fint" into "sint" under a table that holds "<sin" once
\* and does not hold "<fin".
C13_Witness ==
    /\ lpc = "done"
    /\ api = "pass2"
    /\ word = <<"f","i","n","t">>
    /\ out = <<"s","i","n","t">>
    /\ <<"<","f","i","n">> \notin DOMAIN NGRAM_DATA.fourgrams
    /\ <<"<","s","i","n">> \in DOMAIN NGRAM_DATA.fourgrams
    /\ NGRAM_DATA.fourgrams[<<"<","s","i","n">>] = 1

\* -------------------------------------------------- properties of normalize_text
\* The positions of t where a token starts: a non-whitespace character at the
\* start of t or after a whitespace character.
TokenStarts(t) ==
    {k \in 1..Len(t) : ~is_whitespace(t[k]) /\ (k = 1 \/ is_whitespace(t[k - 1]))}

\* The n-th token of t: from the n-th start up to the next whitespace.
TokenAt(t, n) ==
    LET from == CHOOSE k \in TokenStarts(t) :
                    Cardinality({s \in TokenStarts(t) : s <= k}) = n
        to == CHOOSE k \in from..Len(t) :
                    /\ \A m \in from..k : ~is_whitespace(t[m])
                    /\ (k = Len(t) \/ is_whitespace(t[k + 1]))
    IN  SubSeq(t, from, to)

\* C14: normalize_text(t, p) is the tokens of t in their order, each replaced
\* by normalize_word(token, p), joined by exactly one space: as many words as
\* t has tokens, nothing but single spaces between them, no whitespace at
\* either end, and the empty string when t has no token.
C14_TextTokens ==
    (lpc = "done" /\ api = "normalize_text") =>
        LET n == Cardinality(TokenStarts(text))
        IN  /\ Len(outs) = n
            /\ \A j \in 1..n :
                  outs[j] = normalize_word(TokenAt(text, j), apply_pass2, NGRAM_DATA)
            /\ Cardinality(TokenStarts(text_out)) = n
            /\ \A j \in 1..n : TokenAt(text_out, j) = outs[j]
            /\ \A k \in 1..Len(text_out) :
                  is_whitespace(text_out[k]) =>
                      /\ text_out[k] = " "
                      /\ k # 1
                      /\ k # Len(text_out)
                      /\ ~is_whitespace(text_out[k + 1])
            /\ n = 0 => text_out = <<>>

\* normalize_text has returned on a text whose two tokens Pass 1 changes and
\* which two spaces separate, and on a text of whitespace only.
C14_Witness ==
    /\ lpc = "done"
    /\ api = "normalize_text"
    /\ lcalls = 1
    /\ text = <<"f","t","a","t","u","a"," "," ","f","p","i","r","i","t","u","s">>
    /\ text_out = <<"s","t","a","t","u","a"," ","s","p","i","r","i","t","u","s">>

\* --------------------------------------------- properties of normalize_detailed
\* The positions where the text normalize_detailed returned differs from the
\* text it was given.
Differing == {k \in 1..Len(chars) : result[k] # chars[k]}

\* C17: the normalized text of normalize_detailed(t) is normalize(t), and its
\* change list holds exactly one record for each position where that text
\* differs from t, the positions increasing, each record with the original
\* character, the normalized character and the name of the deciding rule.
C17_DetailedChanges ==
    pc = "d_done" =>
        /\ result = normalize(chars)
        /\ Len(changes) = Cardinality(Differing)
        /\ \A j \in 1..Len(changes) :
              LET k == changes[j].position + 1
              IN  /\ k \in Differing
                  /\ changes[j].original = chars[k]
                  /\ changes[j].normalized = result[k]
                  /\ changes[j].rule = classify_uv(chars, k)[2]
        /\ \A j \in 1..(Len(changes) - 1) :
              changes[j].position < changes[j + 1].position

\* normalize_detailed has returned two records, for an uppercase and for a
\* lowercase letter, on a text with a u/v letter it leaves alone.
C17_Witness ==
    /\ pc = "d_done"
    /\ Len(changes) = 2
    /\ \E j \in 1..2 : is_uppercase(changes[j].original)
    /\ \E j \in 1..2 : is_lowercase(changes[j].original)
    /\ \E k \in 1..Len(chars) : is_uv(chars[k]) /\ k \notin Differing

\* ------------------------------------------------------- properties of Rule 1
\* The positions a call of normalize or of normalize_detailed has pushed a
\* character for.
PushedByAny ==
    IF pc \in {"loop", "done", "d_loop", "d_done"} THEN 1..Len(result) ELSE {}

\* C16: every u/v letter that directly follows 'q' or 'Q' is classified 'u'
\* by the rule after_q, whatever the other rules would have said, and is
\* pushed as 'u' in its own case.
C16_AfterQ ==
    \A k \in PushedByAny :
        (is_uv(chars[k]) /\ to_ascii_lowercase(At(chars, k - 1)) = "q") =>
            /\ classify_uv(chars, k) = <<"u", "after_q">>
            /\ to_ascii_lowercase(result[k]) = "u"
            /\ is_uppercase(result[k]) <=> is_uppercase(chars[k])

\* A 'v' after 'Q' has been pushed as 'u' at a position where a later rule,
\* the first letter of a double u after vowel and consonant, would have said
\* 'v'.
C16_Witness ==
    /\ pc = "done"
    /\ chars = <<"a","Q","v","v","a">>
    /\ result[3] = "u"
    /\ rule_double_u_first(chars, 3) = <<"v", "double_u_first_VCuu">>

\* ------------------------------------------------------- properties of Rule 5
\* The rule names of the two branches of Rule 5, sub-case by sub-case.
DoubleUSubCases ==
    { <<"double_u_first_VCuu", "double_u_second_VCuu">>,
      <<"double_u_first_CCuu", "double_u_second_CCuu">>,
      <<"double_u_first_Vuu", "double_u_second_Vuu">>,
      <<"double_u_first_initial_i", "double_u_second_initial_i">> }

\* first is decided by the first-letter branch and second by the
\* second-letter branch.
DecidedAsPair(first, second) ==
    /\ first[2] \in {sc[1] : sc \in DoubleUSubCases}
    /\ second[2] \in {sc[2] : sc \in DoubleUSubCases}

\* C18: when the first letter of a doubled u/v is decided by the first-letter
\* branch of Rule 5 and the second by its second-letter branch, the two
\* branches take the same sub-case and the two letters get opposite values,
\* one 'u' and one 'v'.
C18_DoubleUMirror ==
    \A k \in PushedByAny :
        (k + 1 \in PushedByAny /\ is_uv(chars[k]) /\ is_uv(chars[k + 1])) =>
            LET first == classify_uv(chars, k)
                second == classify_uv(chars, k + 1)
            IN  DecidedAsPair(first, second) =>
                    /\ <<first[2], second[2]>> \in DoubleUSubCases
                    /\ {first[1], second[1]} = {"u", "v"}
                    /\ {to_ascii_lowercase(result[k]),
                        to_ascii_lowercase(result[k + 1])} = {"u", "v"}

\* normalize has pushed "iuua" as "iuva": the pair after the word-initial 'i'.
C18_Witness ==
    /\ pc = "done"
    /\ chars = <<"i","u","u","a">>
    /\ result = <<"i","u","v","a">>
    /\ classify_uv(chars, 2)[2] = "double_u_first_initial_i"
    /\ classify_uv(chars, 3)[2] = "double_u_second_initial_i"

\* ------------------------------------------------- properties at the boundaries
\* The positions the next iteration of the loop of normalize or of
\* normalize_detailed reads.
ReadsOfStep ==
    {i + 1}
        \cup (IF is_uv(chars[i + 1]) THEN reads_classify_uv(chars, i + 1) ELSE {})
        \cup (IF pc = "d_loop" /\ changes_push(chars, i + 1) # <<>>
              THEN reads_get_context(chars, i + 1, 3) ELSE {})

\* C15: every normalizer returns the empty string for the empty string, and
\* every position a normalizer reads is a position of its input: in the loops
\* of normalize and normalize_detailed, at the word-final 'f' of pass1 and at
\* the prefix tests of pass2.
C15_Boundaries ==
    /\ (pc \in {"loop", "d_loop"} /\ i < Len(chars)) =>
          ReadsOfStep \subseteq 1..Len(chars)
    /\ lpc = "final" => reads_replace_final_f(normalized) \subseteq 1..Len(normalized)
    /\ lpc = "decide" =>
          reads_pass2(normalized, NGRAM_DATA) \subseteq 1..Len(normalized)
    /\ (pc \in {"done", "d_done"} /\ chars = <<>>) => result = <<>> /\ changes = <<>>
    /\ (lpc = "done" /\ api = "normalize_word" /\ word = <<>>) => out = <<>>
    /\ (lpc = "done" /\ api = "normalize_text" /\ text = <<>>) => text_out = <<>>

\* normalize has returned on a text whose last letter is a 'u' that only the
\* word-final rule decides, and normalize_word on the single letter "f".
C15_Witness ==
    \/ /\ pc = "done"
       /\ chars = <<"r","u">>
       /\ result = chars
       /\ classify_uv(chars, 2)[2] = "word_final"
    \/ /\ lpc = "done"
       /\ api = "normalize_word"
       /\ apply_pass2
       /\ word = <<"f">>
       /\ out = <<"s">>

\* ------------------------------------------------ properties of the shared table
\* NGRAM_DATA holds a table.
TableLoaded == NGRAM_DATA \notin {Unloaded, Initializing, Poisoned}

\* C19: whatever the callers do and however their steps interleave, the
\* initializer of the table runs at most once and only in a dereference made
\* by pass2, so never before a caller has invoked pass2, and once the table
\* is there none of its three mappings changes.
C19_TableOnce ==
    /\ [](/\ inits <= 1
          /\ NGRAM_DATA # Unloaded =>
                inits = 1 /\ \E c \in Callers : callers[c].invoked)
    /\ [][/\ inits' # inits => \E c \in Callers : callers[c].at = "pass2"
          /\ TableLoaded =>
                /\ NGRAM_DATA'.bigrams = NGRAM_DATA.bigrams
                /\ NGRAM_DATA'.trigrams = NGRAM_DATA.trigrams
                /\ NGRAM_DATA'.fourgrams = NGRAM_DATA.fourgrams]_vars

\* Two callers are inside pass2 on the loaded table at once, after the
\* initializer has run once.
C19_Witness ==
    /\ TableLoaded
    /\ inits = 1
    /\ \A c \in {1, 2} : callers[c].at = "lookup"

=============================================================================
